---- MODULE Spec2Model ----
(***************************************************************************)
(* A model of ovn-flowhunter: find_duplicates.py (duplicate detection, the *)
(* endpoint lister and remediation) and missingflowhunter.py (the          *)
(* canonicalizers, the reconciliation loop and the __main__ block).        *)
(*                                                                         *)
(* Text is modelled as a sequence of atoms: an atom is a short string that *)
(* no operation of the program looks inside (a marker, a key with its "=", *)
(* a value, one separator character).  Python's str operations become      *)
(* operations on atom sequences: `x in s` is contiguous-subsequence        *)
(* search, split and replace work on atoms.                                *)
(***************************************************************************)
EXTENDS Integers, Sequences, FiniteSets, TLC

(***************************************************************************)
(* Generic text helpers                                                    *)
(***************************************************************************)

\* Python `sub in s` for strings: sub occurs in s as a contiguous run.
IsSubstr(sub, s) ==
    \E i \in 0..(Len(s) - Len(sub)) :
        \A j \in 1..Len(sub) : s[i + j] = sub[j]

IndexError == "IndexError"
None == "None"

\* Whitespace atoms, as str.rstrip() strips them.
Whitespace == { " ", "\n" }

\* str.rstrip()
RECURSIVE rstrip(_)
rstrip(s) ==
    IF s # << >> /\ s[Len(s)] \in Whitespace
    THEN rstrip(SubSeq(s, 1, Len(s) - 1))
    ELSE s

\* The first index from i on at which sep occurs in s, 0 when it does not.
RECURSIVE FirstFrom(_, _, _)
FirstFrom(s, sep, i) ==
    IF i > Len(s) - Len(sep) + 1 THEN 0
    ELSE IF \A j \in 1..Len(sep) : s[i + j - 1] = sep[j] THEN i
    ELSE FirstFrom(s, sep, i + 1)

\* The first index at which sep occurs in s, 0 when it does not.
FirstAt(s, sep) == FirstFrom(s, sep, 1)

\* str.split(sep)
RECURSIVE Split(_, _)
Split(s, sep) ==
    LET i == FirstAt(s, sep)
    IN IF i = 0 THEN <<s>>
       ELSE <<SubSeq(s, 1, i - 1)>> \o
            Split(SubSeq(s, i + Len(sep), Len(s)), sep)

\* str.split(sep, maxsplit=1)
Split1(s, sep) ==
    LET i == FirstAt(s, sep)
    IN IF i = 0 THEN <<s>>
       ELSE <<SubSeq(s, 1, i - 1), SubSeq(s, i + Len(sep), Len(s))>>

\* str.replace(old, new) for a one-atom old and an atom sequence new.
RECURSIVE Replace(_, _, _)
Replace(s, old, new) ==
    IF s = << >> THEN << >>
    ELSE (IF Head(s) = old THEN new ELSE <<Head(s)>>) \o
         Replace(Tail(s), old, new)

\* sep.join(parts)
RECURSIVE Join(_, _)
Join(parts, sep) ==
    IF parts = << >> THEN << >>
    ELSE IF Len(parts) = 1 THEN parts[1]
    ELSE parts[1] \o sep \o Join(Tail(parts), sep)

\* Runs of blanks are whitespace too.
Blank == Whitespace \cup { "  " }

\* str.lstrip() and str.strip()
RECURSIVE lstrip(_)
lstrip(s) ==
    IF s # << >> /\ Head(s) \in Blank THEN lstrip(Tail(s)) ELSE s

RECURSIVE rstripb(_)
rstripb(s) ==
    IF s # << >> /\ s[Len(s)] \in Blank
    THEN rstripb(SubSeq(s, 1, Len(s) - 1))
    ELSE s

strip(s) == lstrip(rstripb(s))

(***************************************************************************)
(* State                                                                   *)
(***************************************************************************)

VARIABLES
    \* find_duplicates.py, delete_duplicates and what it calls
    duplicates,     \* argument of delete_duplicates
    dry_run,        \* argument of delete_duplicates
    nb_db,          \* the control plane's endpoints, as the lister would report
    lsp_cache,      \* lru_cache of get_list_logical_switch_port
    nbctl_calls,    \* number of endpoint lister queries made
    gi, fi,         \* position of the two for loops of delete_duplicates
    failures,       \* the list delete_duplicates returns
    del_calls,      \* external lsp-del calls issued: <<[target, lookup, rc]>>
    progress,       \* characters printed
    lookups,        \* get_port_uuid calls made: <<[flow, ports, outcome, port]>>
    del_pc,         \* "loop", "returned", "raised" ("idle": not running)
    del_exc,        \* the exception that left delete_duplicates
    env_steps,      \* control-plane changes so far
    \* find_duplicates.py, find_lflow_dups
    listing,        \* the rule lines of the lflow-list output, after the header
    li,             \* position of the for loop over the lines
    flows,          \* the defaultdict, in insertion order: <<[key, lines]>>
    dups,           \* the dict returned
    dup_pc,         \* "loop", "returned" ("idle": not running)
    \* missingflowhunter.py, the canonicalizers
    canon_rule,     \* the logical rule given to the canonicalizers
    canon_ctr,      \* the volatile counters of its live-dump line
    out_logline,    \* result of extract_flow_from_logline
    out_ofctl,      \* result of extract_flow_from_ofctl
    out_ovs,        \* result of extract_flow_from_ovs_logline
    out_again,      \* each canonicalizer applied to its own result
    \* missingflowhunter.py, loop
    ovn_log,        \* lines written to ovn-controller.log since the seek to EOF
    w_off,          \* atoms of the last line that have reached the file
    r_line, r_off,  \* read position of ovn_logf: line and atoms consumed of it
    expected_flows, \* the expected set
    loop_pc,        \* "running", "raised" ("idle": not running)
    loop_exc,       \* the exception that left loop
    last,           \* what the last iteration that got a whole line did
    classified,     \* the reads that were classified: <<[line, off]>>
    \* find_duplicates.py, get_list_logical_switch_port and a lookup
    lsp_stdout,     \* p.stdout of the endpoint lister
    lsp_i,          \* position of the for loop over the lines
    buffer_,        \* the lines of the block being read
    lsp_ports,      \* the list being built
    lsp_pc,         \* "loop", "returned", "looked up" ("idle": not running)
    lsp_lookup,     \* outcome of a lookup over the returned list
    \* missingflowhunter.py, the __main__ block and main
    vlog,           \* the daemon's levels of module ofctrl, per destination
    vlog_listed,    \* vlog/list has a line for the module
    current_vlog_level, \* the level read at start
    vlog_calls,     \* the levels of the vlog/set calls issued, in order
    files_open,     \* the log files main holds open
    main_pc,        \* position in __main__ and main ("idle": not running)
    main_exc        \* the exception on its way out

del_vars == <<duplicates, dry_run, nb_db, lsp_cache, nbctl_calls, gi, fi,
              failures, del_calls, progress, lookups, del_pc, del_exc,
              env_steps>>
dup_vars == <<listing, li, flows, dups, dup_pc>>
canon_vars == <<canon_rule, canon_ctr, out_logline, out_ofctl, out_ovs,
                out_again>>
loop_vars == <<ovn_log, w_off, r_line, r_off, expected_flows, loop_pc,
               loop_exc, last, classified>>
list_vars == <<lsp_stdout, lsp_i, buffer_, lsp_ports, lsp_pc, lsp_lookup>>
main_vars == <<vlog, vlog_listed, current_vlog_level, vlog_calls, files_open,
               main_pc, main_exc>>
vars == <<del_vars, dup_vars, canon_vars, loop_vars, list_vars, main_vars>>

(***************************************************************************)
(* find_duplicates.py : Port Index and Remediation Engine                  *)
(***************************************************************************)

\* Bounds of the remediation model: endpoints in the snapshot, member
\* rules in the duplicates dict, changes of the control plane during a run.
MaxPorts == 2
MaxFlows == 4
MaxEnv == 1

\* find_lflow_dups keeps the groups of more than one line.
MinGroup == 2

\* Hardware and IP addresses as atom sequences.  IP "1" is a textual prefix
\* of IP "10", as 10.0.0.1 is of 10.0.0.10.
MACs == { <<"a">>, <<"b">> }
IPs == { <<"1">>, <<"1", "0">> }
\* A match clause that binds no " reg0 == " (an IPv6 rule binds xxreg0).
NoReg0 == <<"xxreg0">>

\* The hardware addresses the endpoints of the control plane have; no
\* endpoint has the address "b".
PortMACs == { <<"a">> }

Miss == "miss"
NoPort == "no port"
Unbound == "unbound"

\* The keys parse_port may set.
PortKeys == { "_uuid", "addresses", "up" }

\* One endpoint record as parse_port builds it from a block that has the
\* three fields.  `keys` are the keys the dict holds; a field whose key is
\* not held has a filler value that nothing reads.
Port(id, mac, ip, up) ==
    [keys |-> PortKeys, _uuid |-> id, addresses |-> mac \o <<" ">> \o ip,
     up |-> up]

\* port = {}
EmptyPort == [keys |-> {}, _uuid |-> 0, addresses |-> << >>, up |-> FALSE]

\* All endpoint snapshots with n endpoints; identifiers are unique.
RECURSIVE PortLists(_)
PortLists(n) ==
    IF n = 0 THEN { << >> }
    ELSE { Append(ps, Port(n, m, i, u)) :
             ps \in PortLists(n - 1), m \in PortMACs, i \in IPs,
             u \in BOOLEAN }

\* A rule line of a duplicate group, reduced to what RE_IP_ADDR reads from
\* it: the reg0 operand of the match and the eth.dst of the action.
Flow(ip, mac) == [ip |-> ip, mac |-> mac]

\* The duplicate groups of n rules: the members of a group share the
\* RuleKey, hence the match.
Groups(n) ==
    { [j \in 1..n |-> Flow(ip, ms[j])] :
        ip \in IPs \cup {NoReg0}, ms \in [1..n -> MACs] }

\* The duplicates dicts of at most n member rules: groups in insertion
\* order, keys (the match) distinct, each group of MinGroup rules or more.
RECURSIVE DupMapsUpTo(_)
DupMapsUpTo(n) ==
    { << >> } \cup
    UNION { { Append(d, g) : d \in DupMapsUpTo(n - k), g \in Groups(k) } :
            k \in MinGroup..n }

\* main calls delete_duplicates with a dict that is not empty.
DupMaps ==
    { d \in DupMapsUpTo(MaxFlows) :
        /\ d # << >>
        /\ \A x, y \in DOMAIN d : x # y => d[x][1].ip # d[y][1].ip }

\* The text of the identifiers of the endpoints 1, 2, ...
UUIDText == <<"4ada0187", "5bdb1298", "6cec23a9", "7dfd34ba">>

\* uuid.UUID(text): the identifier that the text denotes.
UUID(text) == CHOOSE n \in DOMAIN UUIDText : UUIDText[n] = text

\* A line of the endpoint listing: the column, padding, ':' and the value.
FieldLine(col, value) == <<col, "  ", ":", " ">> \o value

\* The block the lister prints for one endpoint, each line with its newline.
BlockText(p) ==
    FieldLine("_uuid", <<UUIDText[p._uuid]>>) \o <<"\n">>
    \o FieldLine("addresses", p.addresses) \o <<"\n">>
    \o FieldLine("name", <<"port">>) \o <<"\n">>
    \o FieldLine("up", <<IF p.up THEN "true" ELSE "false">>) \o <<"\n">>

\* n newlines.
Newlines(n) == [k \in 1..n |-> "\n"]

\* The listing of the endpoints of db: gap blank lines between two blocks,
\* tail blank lines after the last.
ListingText(db, gap, tail) ==
    Join([k \in DOMAIN db |-> BlockText(db[k])], Newlines(gap))
    \o Newlines(tail)

\* What `ovn-nbctl list logical-switch-port` prints: the blocks, one blank
\* line between two of them.
list_output(db) == ListingText(db, 1, 0)

\* str.startswith(prefix) for a prefix of one atom.
StartsWith(line, prefix) == line # << >> /\ Head(line) = prefix

\* line.split(':', maxsplit=1)[1].strip()
FieldValue(line) == strip(Split1(line, <<":">>)[2])

\* The body of the for loop of parse_port.
parse_line(port, line) ==
    IF StartsWith(line, "_uuid")
    THEN [port EXCEPT !.keys = @ \cup {"_uuid"}, !._uuid = UUID(FieldValue(line)[1])]
    ELSE IF StartsWith(line, "addresses")
    THEN [port EXCEPT !.keys = @ \cup {"addresses"},
                      !.addresses = FieldValue(line)]
    ELSE IF StartsWith(line, "up")
    THEN [port EXCEPT !.keys = @ \cup {"up"},
                      !.up = (FieldValue(line) = <<"true">>)]
    ELSE port

\* parse_port
RECURSIVE parse_port_from(_, _)
parse_port_from(port, lines) ==
    IF lines = << >> THEN port
    ELSE parse_port_from(parse_line(port, Head(lines)), Tail(lines))

parse_port(lines) == parse_port_from(EmptyPort, lines)

\* The body of the for loop of get_list_logical_switch_port.
lister_line(st, line) ==
    IF line = << >>
    THEN [ports |-> Append(st.ports, parse_port(st.buffer_)),
          buffer_ |-> << >>]
    ELSE [st EXCEPT !.buffer_ = Append(@, line)]

\* The for loop of get_list_logical_switch_port over the lines.
RECURSIVE lister_lines(_, _)
lister_lines(st, lines) ==
    IF lines = << >> THEN st
    ELSE lister_lines(lister_line(st, Head(lines)), Tail(lines))

\* get_list_logical_switch_port, given p.stdout of a lister that exited
\* with status zero.
get_list_logical_switch_port(stdout) ==
    lister_lines([ports |-> << >>, buffer_ |-> << >>],
                 Split(stdout, <<"\n">>)).ports

\* Bounds of the lister model: blocks of a listing, blank lines in a row.
MaxBlocks == 2
MaxBlank == 2

\* The listings given to the lister: up to MaxBlocks blocks, one blank line
\* or more between two blocks, and none or more after the last.
Listings ==
    { ListingText(db, gap, tail) :
        db \in UNION { PortLists(n) : n \in 0..MaxBlocks },
        gap \in 1..MaxBlank, tail \in 0..(MaxBlank - 1) }

\* RE_IP_ADDR.match(flow): the (ip, mac) groups, or no match.
RE_IP_ADDR(flow) == flow.ip # NoReg0

\* filter(lambda p: mac in p['addresses'] and ip in p['addresses'], ports)
RECURSIVE ports_found(_, _, _)
ports_found(ports, ip_addr, mac_addr) ==
    IF ports = << >> THEN << >>
    ELSE LET p == Head(ports)
             rest == ports_found(Tail(ports), ip_addr, mac_addr)
         IN IF IsSubstr(mac_addr, p.addresses) /\ IsSubstr(ip_addr, p.addresses)
            THEN <<p>> \o rest
            ELSE rest

\* A faulty variant of get_port_uuid: takes the first of several matches.
get_port_uuid_first(flow, ports) ==
    LET found == ports_found(ports, flow.ip, flow.mac)
    IN IF \E i \in DOMAIN ports : "addresses" \notin ports[i].keys
       THEN [outcome |-> "KeyError", port |-> NoPort]
       ELSE IF Len(found) >= 1
       THEN [outcome |-> "port", port |-> found[1]]
       ELSE [outcome |-> "PortNotFound", port |-> NoPort]

\* get_port_uuid, after the regular expression matched and given the
\* endpoint snapshot.
get_port_uuid(flow, ports) ==
    LET found == ports_found(ports, flow.ip, flow.mac)
    IN IF \E i \in DOMAIN ports : "addresses" \notin ports[i].keys
       THEN \* p['addresses'] in the filter's lambda
            [outcome |-> "KeyError", port |-> NoPort]
       ELSE IF Len(found) = 1
       THEN [outcome |-> "port", port |-> found[1]]
       ELSE IF Len(found) = 0
       THEN [outcome |-> "PortNotFound", port |-> NoPort]
       ELSE [outcome |-> "ManyPortsFound", port |-> NoPort]

\* A faulty variant of the cache: every call is a miss.
cache_lookup_none(cache) == Miss

\* functools.lru_cache on a function of no arguments: the stored result.
cache_lookup(cache) == cache

\* The name port_uuid in delete_duplicates: it is assigned nowhere in the
\* function nor at module level.
port_uuid == Unbound

\* delete_port: the external call it issues (none on a dry run).
delete_port(uuid, dry) == IF dry THEN << >> ELSE <<uuid>>

\* A faulty variant of the body of the try block: the endpoint is deleted whatever
\* its state and whatever the dry-run flag.
delete_if_down_always(port, dry, rc) ==
    [exc |-> "none", calls |-> <<port._uuid>>,
     fails |-> IF rc = 0 THEN << >> ELSE <<[uuid |-> port._uuid, rc |-> rc]>>,
     out |-> IF rc = 0 THEN <<".">> ELSE <<"F">>]

\* Lines 196-205 for a resolved port; rc is the status the external delete
\* would return.
delete_if_down(port, dry, rc) ==
    IF "up" \notin port.keys
    THEN \* port['up']
         [exc |-> "KeyError", calls |-> << >>, fails |-> << >>, out |-> << >>]
    ELSE IF port.up
    THEN [exc |-> "none", calls |-> << >>, fails |-> << >>, out |-> << >>]
    ELSE IF port_uuid = Unbound
    THEN [exc |-> "NameError", calls |-> << >>, fails |-> << >>, out |-> << >>]
    ELSE LET calls == delete_port(port_uuid, dry)
         IN IF dry
            THEN [exc |-> "none", calls |-> calls, fails |-> << >>, out |-> << >>]
            ELSE IF rc = 0
            THEN [exc |-> "none", calls |-> calls, fails |-> << >>, out |-> <<".">>]
            ELSE [exc |-> "none", calls |-> calls,
                  fails |-> <<[uuid |-> port_uuid, rc |-> rc]>>, out |-> <<"F">>]

\* The external lsp-del: removes the endpoint from the control plane.
lsp_del(db, calls) ==
    IF calls = << >> THEN db
    ELSE SelectSeq(db, LAMBDA p : p._uuid # calls[1])

\* Advance the two for loops.
NextPos(d, g, f) ==
    IF f < Len(d[g]) THEN <<g, f + 1>> ELSE <<g + 1, 1>>

DelInit ==
    /\ duplicates \in DupMaps
    /\ dry_run \in BOOLEAN
    /\ nb_db \in UNION { PortLists(n) : n \in 0..MaxPorts }
    /\ lsp_cache = Miss
    /\ nbctl_calls = 0
    /\ gi = 1 /\ fi = 1
    /\ failures = << >>
    /\ del_calls = << >>
    /\ progress = << >>
    /\ lookups = << >>
    /\ del_pc = "loop"
    /\ del_exc = "none"
    /\ env_steps = 0

\* The body of the inner for loop, for the flow at (gi, fi).
\*   ok: the endpoint lister returns status zero (only asked on a miss)
\*   rc: status of the external delete, were it called
ProcessFlow(ok, rc) ==
    /\ del_pc = "loop"
    /\ gi <= Len(duplicates)
    /\ LET flow == duplicates[gi][fi]
           hit == cache_lookup(lsp_cache)
       IN IF ~RE_IP_ADDR(flow)
          THEN \* assert result
               /\ del_pc' = "raised" /\ del_exc' = "AssertionError"
               /\ UNCHANGED <<lsp_cache, nbctl_calls, nb_db, failures,
                              del_calls, progress, lookups, gi, fi>>
          ELSE IF hit = Miss /\ ~ok
          THEN \* assert p.returncode == 0: nothing is cached
               /\ nbctl_calls' = nbctl_calls + 1
               /\ del_pc' = "raised" /\ del_exc' = "AssertionError"
               /\ UNCHANGED <<lsp_cache, nb_db, failures, del_calls,
                              progress, lookups, gi, fi>>
          ELSE \* ports = get_list_logical_switch_port(): the cached list,
               \* or the parsed listing, which the cache then holds
               /\ lsp_cache' =
                     IF hit = Miss
                     THEN get_list_logical_switch_port(list_output(nb_db))
                     ELSE hit
               /\ LET res == get_port_uuid(flow, lsp_cache')
                      look == [flow |-> flow, ports |-> lsp_cache',
                               outcome |-> res.outcome, port |-> res.port]
                  IN /\ nbctl_calls' = IF hit = Miss THEN nbctl_calls + 1
                                       ELSE nbctl_calls
                     /\ lookups' = Append(lookups, look)
                     /\ IF res.outcome \in {"ManyPortsFound", "KeyError"}
                        THEN \* not caught by `except PortNotFound`
                             /\ del_pc' = "raised"
                             /\ del_exc' = res.outcome
                             /\ UNCHANGED <<nb_db, failures, del_calls,
                                            progress, gi, fi>>
                        ELSE IF res.outcome = "PortNotFound"
                        THEN /\ progress' = Append(progress, "E")
                             /\ gi' = NextPos(duplicates, gi, fi)[1]
                             /\ fi' = NextPos(duplicates, gi, fi)[2]
                             /\ UNCHANGED <<nb_db, failures, del_calls,
                                            del_pc, del_exc>>
                        ELSE LET r == delete_if_down(res.port, dry_run, rc)
                             IN IF r.exc # "none"
                                THEN /\ del_pc' = "raised"
                                     /\ del_exc' = r.exc
                                     /\ UNCHANGED <<nb_db, failures, del_calls,
                                                    progress, gi, fi>>
                                ELSE /\ del_calls' = del_calls \o
                                           [k \in 1..Len(r.calls) |->
                                              [target |-> r.calls[k],
                                               lookup |-> Len(lookups) + 1,
                                               rc |-> rc]]
                                     /\ nb_db' = IF rc = 0
                                                 THEN lsp_del(nb_db, r.calls)
                                                 ELSE nb_db
                                     /\ failures' = failures \o r.fails
                                     /\ progress' = progress \o r.out
                                     /\ gi' = NextPos(duplicates, gi, fi)[1]
                                     /\ fi' = NextPos(duplicates, gi, fi)[2]
                                     /\ UNCHANGED <<del_pc, del_exc>>
    /\ UNCHANGED <<duplicates, dry_run, env_steps>>
    /\ UNCHANGED <<dup_vars, canon_vars, loop_vars, list_vars, main_vars>>

\* return failures
DelReturn ==
    /\ del_pc = "loop"
    /\ gi > Len(duplicates)
    /\ del_pc' = "returned"
    /\ UNCHANGED <<duplicates, dry_run, nb_db, lsp_cache, nbctl_calls, gi, fi,
                   failures, del_calls, progress, lookups, del_exc, env_steps>>
    /\ UNCHANGED <<dup_vars, canon_vars, loop_vars, list_vars, main_vars>>

\* The control plane changes an endpoint's administrative state while the
\* program runs.  A change that precedes the first successful listing is a
\* run from another initial control plane, so changes are taken after it.
EnvFlip(i) ==
    /\ del_pc = "loop"
    /\ lsp_cache # Miss
    /\ env_steps < MaxEnv
    /\ i \in DOMAIN nb_db
    /\ nb_db' = [nb_db EXCEPT ![i].up = ~nb_db[i].up]
    /\ env_steps' = env_steps + 1
    /\ UNCHANGED <<duplicates, dry_run, lsp_cache, nbctl_calls, gi, fi,
                   failures, del_calls, progress, lookups, del_pc, del_exc>>
    /\ UNCHANGED <<dup_vars, canon_vars, loop_vars, list_vars, main_vars>>

\* The exit status of the command once delete_duplicates has ended: main
\* returns 1 when the failure list is not empty and None (status 0)
\* otherwise; an exception that leaves main ends the process with status 1.
exit_status ==
    IF del_pc = "raised" THEN 1
    ELSE IF failures # << >> THEN 1
    ELSE 0

\* The lister is run on a cache miss only, the external delete outside a
\* dry run only: elsewhere their status is not an input.
ListerStatus == IF cache_lookup(lsp_cache) = Miss THEN BOOLEAN ELSE {TRUE}
DeleteStatus == IF dry_run THEN {0} ELSE {0, 1}

DelNext ==
    \/ \E ok \in ListerStatus, rc \in DeleteStatus : ProcessFlow(ok, rc)
    \/ DelReturn
    \/ \E i \in 1..MaxPorts : EnvFlip(i)

(***************************************************************************)
(* missingflowhunter.py : the three canonicalizers                         *)
(***************************************************************************)

\* Bound: the number of match fields of a rule.
MaxMatch == 2

\* The logical rules: cookie (hex digits), table, priority, match fields
\* and actions.  The second action list holds resubmit(,21), whose text
\* contains a comma.
Cookies == { "33d9a01c", "507e59f3" }
Tables == { "20", "21" }
Priorities == { "100", "90" }
Fields == { "reg0=0xac10005b", "metadata=0x144" }
ActionLists ==
    { << <<"set_field:fa:16:3e:5b:d3:19->eth_dst">> >>,
      << <<"set_field:fa:16:3e:5b:d3:19->eth_dst">>,
         <<"resubmit(", ",", "21)">> >> }
MatchLists == UNION { [1..n -> Fields] : n \in 1..MaxMatch }
Rules ==
    [cookie : Cookies, table : Tables, priority : Priorities,
     match : MatchLists, actions : ActionLists]

\* Values of the volatile counters of a live dump.
Counters == { "0", "2962" }

\* key=value fields as text: "a,b,c".
FieldText(fields) == Join([i \in DOMAIN fields |-> <<fields[i]>>], <<",">>)
ActionText(actions) == <<"actions=">> \o Join(actions, <<",">>)

\* A line of ovn-controller's debug log, as the docstring of
\* extract_flow_from_logline shows it; what is "ofctrl_add_flow" or
\* "removing installed".
DebugLogLine(what, r) ==
    <<"2022-02-11T08:25:46.572Z|2419719|ofctrl|DBG|", what, " ", "flow", ":",
      " ", "cookie=", r.cookie, ",", " ", "table_id=", r.table, ",", " ",
      "priority=", r.priority, ",", " ">>
    \o FieldText(r.match) \o <<",", " ">> \o ActionText(r.actions)
    \o <<"\n">>

\* A line of `ovs-ofctl dump-flows`, as the docstring of
\* extract_flow_from_ofctl shows it; c gives the volatile counters.
OfctlLine(r, c) ==
    <<"cookie=", "0x", r.cookie, ",", " ", "duration=", c, ",", " ",
      "table=", r.table, ",", " ", "n_packets=", c, ",", " ",
      "n_bytes=", c, ",", " ", "idle_age=", c, ",", " ",
      "priority=", r.priority, ",">>
    \o FieldText(r.match) \o <<" ">> \o ActionText(r.actions)

\* A line of ovs-vswitchd.log, as the docstring of
\* extract_flow_from_ovs_logline shows it (the test strips the newline).
OvsLogLine(r) ==
    <<"2022-02-14T21:50:28.287Z|00356|vconn|DBG|unix#3:", " ", "received:",
      " ", "OFPT_FLOW_MOD", " ", "(OF1.3)", " ", "(xid=0x36c):", " ", "ADD",
      " ", "table:", r.table, " ", "priority=", r.priority, ",">>
    \o FieldText(r.match) \o <<" ", "cookie:", "0x", r.cookie, " ">>
    \o ActionText(r.actions)

\* A faulty variant of extract_flow_from_logline: the cookie keeps no 0x prefix.
extract_flow_from_logline_no0x(line) ==
    LET parts == Split(rstrip(line), <<"flow", ":">>)
    IN IF Len(parts) < 2 THEN IndexError
       ELSE Replace(Replace(parts[2], " ", << >>), "table_id=", <<"table=">>)

\* extract_flow_from_logline
extract_flow_from_logline(line) ==
    LET parts == Split(rstrip(line), <<"flow", ":">>)
    IN IF Len(parts) < 2 THEN IndexError
       ELSE Replace(Replace(Replace(parts[2], " ", << >>),
                            "table_id=", <<"table=">>),
                    "cookie=", <<"cookie=", "0x">>)

\* The atoms whose text contains one of the words the live-dump filter
\* looks for: 'duration', 'n_packets', 'n_bytes', 'idle_age'.
VolatileAtoms == { "duration=", "n_packets=", "n_bytes=", "idle_age=" }

\* `word in kv_pair` for one of the four words.
IsVolatile(kv_pair) == \E i \in DOMAIN kv_pair : kv_pair[i] \in VolatileAtoms

\* A faulty variant of extract_flow_from_ofctl: idle_age is not filtered out.
extract_flow_from_ofctl_idle(line) ==
    LET kv_pairs == SelectSeq(Split(Replace(rstrip(line), " ", <<",">>), <<",">>),
                              LAMBDA kv : kv # << >> /\
                                  \A i \in DOMAIN kv :
                                     kv[i] \notin (VolatileAtoms \ {"idle_age="}))
    IN Join(kv_pairs, <<",">>)

\* extract_flow_from_ofctl
extract_flow_from_ofctl(line) ==
    LET kv_pairs == SelectSeq(Split(Replace(rstrip(line), " ", <<",">>), <<",">>),
                              LAMBDA kv : kv # << >> /\ ~IsVolatile(kv))
    IN Join(kv_pairs, <<",">>)

\* str.replace(':', '=') on a token: the atoms that end in a colon.
ColonToEquals(tok) ==
    Replace(Replace(tok, "table:", <<"table=">>), "cookie:", <<"cookie=">>)

\* extract_flow_from_ovs_logline
extract_flow_from_ovs_logline(line) ==
    LET parts == Split1(line, <<" ", "ADD", " ">>)
    IN IF Len(parts) < 2 THEN IndexError
       ELSE LET tokens == Split(parts[2], <<" ">>)
            IN IF Len(tokens) < 4 THEN IndexError
               ELSE Join(<<ColonToEquals(tokens[3]), ColonToEquals(tokens[1]),
                           tokens[2], tokens[4]>>, <<",">>)

\* `out_again` before the canonicalizers are applied a second time.
NotAgain == [logline |-> None, ofctl |-> None, ovs |-> None]

CanonInit ==
    /\ canon_rule \in Rules
    /\ canon_ctr \in Counters
    /\ out_logline = None /\ out_ofctl = None /\ out_ovs = None
    /\ out_again = NotAgain

CallLogline ==
    /\ out_logline = None
    /\ out_logline' =
          extract_flow_from_logline(DebugLogLine("ofctrl_add_flow", canon_rule))
    /\ UNCHANGED <<canon_rule, canon_ctr, out_ofctl, out_ovs, out_again>>
    /\ UNCHANGED <<del_vars, dup_vars, loop_vars, list_vars, main_vars>>

CallOfctl ==
    /\ out_ofctl = None
    /\ out_ofctl' = extract_flow_from_ofctl(OfctlLine(canon_rule, canon_ctr))
    /\ UNCHANGED <<canon_rule, canon_ctr, out_logline, out_ovs, out_again>>
    /\ UNCHANGED <<del_vars, dup_vars, loop_vars, list_vars, main_vars>>

CallOvsLogline ==
    /\ out_ovs = None
    /\ out_ovs' = extract_flow_from_ovs_logline(OvsLogLine(canon_rule))
    /\ UNCHANGED <<canon_rule, canon_ctr, out_logline, out_ofctl, out_again>>
    /\ UNCHANGED <<del_vars, dup_vars, loop_vars, list_vars, main_vars>>

\* Each canonicalizer is given the string it returned.
CallAgain ==
    /\ out_logline # None /\ out_ofctl # None /\ out_ovs # None
    /\ out_again = NotAgain
    /\ out_again' = [logline |-> extract_flow_from_logline(out_logline),
                     ofctl |-> extract_flow_from_ofctl(out_ofctl),
                     ovs |-> extract_flow_from_ovs_logline(out_ovs)]
    /\ UNCHANGED <<canon_rule, canon_ctr, out_logline, out_ofctl, out_ovs>>
    /\ UNCHANGED <<del_vars, dup_vars, loop_vars, list_vars, main_vars>>

(***************************************************************************)
(* find_duplicates.py : find_lflow_dups                                    *)
(***************************************************************************)

\* Bound: the number of rule lines of a listing.
MaxListing == 3

Digits == { "12", "100", "50" }

\* The rule lines of a listing: the stage (with its padding), the
\* priority, the port the match binds, the reg0 operand, the eth.dst.
ArpResolve == "lr_in_arp_resolve  "
LflowLines ==
    [stage : {ArpResolve}, priority : {"100", "50"}, outport : {"lrp-"},
     ip : {"1", "2"}, mac : {"a", "b"}]
    \cup
    [stage : {"lr_in_ip_input     "}, priority : {"100"}, outport : {"lrp-"},
     ip : {"1"}, mac : {"a"}]
    \cup
    [stage : {ArpResolve}, priority : {"100"}, outport : {"cr-lrp-"},
     ip : {"1"}, mac : {"a"}]

\* A rule line as `ovn-sbctl lflow-list` prints it (the lines of DUPLICATES
\* in the test, with the indentation strip() removes).
LflowText(l) ==
    <<"  ", "table=", "12", "(", l.stage, ")", ",", " ", "priority=",
      l.priority, "  ", ",", " ", "match=(", "outport == \"", l.outport,
      "f85096df\" && reg0 == ", l.ip, ")", ",", " ", "action=(",
      "eth.dst = ", l.mac, "; next;)">>

\* The header line and, after the last newline, the empty string.
LflowHeader == <<"Datapath: \"neutron\" Pipeline: ingress">>

\* p.stdout.split('\n')
stdout_lines(ls) ==
    <<LflowHeader>> \o [i \in DOMAIN ls |-> LflowText(ls[i])] \o << << >> >>

\* RE_LRP.match(line)
RE_LRP(line) ==
    /\ Len(line) >= 16
    /\ line[1] = "  "
    /\ line[2] = "table=" /\ line[3] \in Digits /\ line[4] = "("
    /\ line[5] = ArpResolve /\ line[6] = ")" /\ line[7] = "," /\ line[8] = " "
    /\ line[9] = "priority=" /\ line[10] \in Digits /\ line[11] = "  "
    /\ line[12] = "," /\ line[13] = " " /\ line[14] = "match=("
    /\ line[15] = "outport == \"" /\ line[16] = "lrp-"

\* A faulty variant of flow_key: the key is the first two fields only.
flow_key_two(line) ==
    LET parts == Split(line, <<",">>)
    IN lstrip(Join(SubSeq(parts, 1, 2), <<",">>))

\* ','.join(line.split(',')[0:3]).lstrip()
flow_key(line) ==
    LET parts == Split(line, <<",">>)
    IN lstrip(Join(SubSeq(parts, 1, 3), <<",">>))

\* flows[flow] += [line.strip()] on the insertion-ordered dict.
flows_add(fl, key, line) ==
    IF \E i \in DOMAIN fl : fl[i].key = key
    THEN [i \in DOMAIN fl |->
            IF fl[i].key = key
            THEN [fl[i] EXCEPT !.lines = Append(@, line)]
            ELSE fl[i]]
    ELSE Append(fl, [key |-> key, lines |-> <<line>>])

\* A faulty variant of duplicates_of: every key is kept.
duplicates_of_all(fl) == SelectSeq(fl, LAMBDA e : Len(e.lines) > 0)

\* dict(filter(lambda elem: len(elem[1]) > 1, flows.items()))
duplicates_of(fl) == SelectSeq(fl, LAMBDA e : Len(e.lines) > 1)

DupInit ==
    /\ listing \in UNION { [1..n -> LflowLines] : n \in 0..MaxListing }
    /\ li = 2
    /\ flows = << >>
    /\ dups = None
    /\ dup_pc = "loop"

\* One iteration of `for line in stdout_lines[1:]`.
DupLine ==
    /\ dup_pc = "loop"
    /\ li <= Len(stdout_lines(listing))
    /\ LET line == stdout_lines(listing)[li]
       IN flows' = IF RE_LRP(line)
                   THEN flows_add(flows, flow_key(line), strip(line))
                   ELSE flows
    /\ li' = li + 1
    /\ UNCHANGED <<listing, dups, dup_pc>>
    /\ UNCHANGED <<del_vars, canon_vars, loop_vars, list_vars, main_vars>>

\* The filter and the return.
DupReturn ==
    /\ dup_pc = "loop"
    /\ li > Len(stdout_lines(listing))
    /\ dups' = duplicates_of(flows)
    /\ dup_pc' = "returned"
    /\ UNCHANGED <<listing, li, flows>>
    /\ UNCHANGED <<del_vars, canon_vars, loop_vars, list_vars, main_vars>>

DupNext ==
    \/ DupLine
    \/ DupReturn

(***************************************************************************)
(* missingflowhunter.py : check_ofctl and loop                             *)
(***************************************************************************)

\* Bound: the number of lines the log writer appends.
MaxLines == 3

\* The rules the log speaks of: two of the table of interest, one of
\* another table.
LoopRules ==
    { r \in Rules : /\ r.priority = "100"
                    /\ r.match = <<"reg0=0xac10005b">>
                    /\ Len(r.actions) = 1
                    /\ (r.table = "21" => r.cookie = "33d9a01c") }

\* The rules the dataplane holds in table 20.
Table20 == { r \in LoopRules : r.table = "20" }

\* The lines the log writer appends: installs and removals of the rules
\* of table 20, an install in another table, the flush notice, and an
\* install line of table 20 that lacks the "flow:" marker.
LogLines ==
    [kind : {"add", "rm"}, rule : Table20]
    \cup [kind : {"add"}, rule : LoopRules \ Table20]
    \cup [kind : {"put", "bad"}, rule : {None}]

\* The text of a log line, newline included.
LogText(l) ==
    CASE l.kind = "add" -> DebugLogLine("ofctrl_add_flow", l.rule)
      [] l.kind = "rm" -> DebugLogLine("removing installed", l.rule)
      [] l.kind = "bad" ->
            <<"2022-02-11T08:25:46.572Z|2419719|ofctrl|DBG|", "ofctrl_add_flow",
              " ", "cookie=", "33d9a01c", ",", " ", "table_id=", "20", "\n">>
      [] OTHER ->
            <<"2022-02-11T08:25:46.580Z|2419720|ofctrl|DBG|",
              "ofctrl_put not needed", "\n">>

\* Where the writer's writes may end inside a line, in atoms: after the
\* prefix of the line, and after its marker (before "flow:").
SplitOffsets == { 1, 3 }

\* The offsets at which a write of line l may end after offset w.
WriteEnds(l, w) ==
    { k \in SplitOffsets \cup { Len(LogText(l)) } :
        w < k /\ k <= Len(LogText(l)) }

\* ovn_logf.readline() at position (rl, ro): the text up to and including
\* the next newline, or up to the end of the file; the position moves past
\* whatever was returned.
readline(log, woff, rl, ro) ==
    IF rl > Len(log)
    THEN [text |-> << >>, line |-> rl, off |-> ro]
    ELSE LET full == LogText(log[rl])
             avail == IF rl = Len(log) THEN woff ELSE Len(full)
             text == SubSeq(full, ro + 1, avail)
         IN IF avail = Len(full)
            THEN [text |-> text, line |-> rl + 1, off |-> 0]
            ELSE [text |-> text, line |-> rl, off |-> avail]

\* str.endswith('\n')
EndsWithNewline(text) == text # << >> /\ text[Len(text)] = "\n"

\* The reply header `ovs-ofctl -O OpenFlow15 dump-flows` prints first.
OfctlHeader == <<"OFPST_FLOW", " ", "reply", " ", "(OF1.5)", " ", "(xid=0x2):">>

\* cp.stdout.splitlines() for a dataplane holding the rules of snap.
DumpLines(snap, c) == { OfctlHeader } \cup { OfctlLine(r, c) : r \in snap }

\* A faulty variant of check_ofctl: the dump lines are compared as they are.
check_ofctl_raw(expected, lines) == expected \ lines

\* check_ofctl: missing_flows.
check_ofctl(expected, lines) ==
    expected \ { extract_flow_from_ofctl(l) : l \in lines }

\* A faulty variant of set_remove: set.discard.
set_discard(set, x) == [exc |-> "none", set |-> set \ {x}]

\* A faulty variant of set_remove: the element stays in the set.
set_remove_keep(set, x) ==
    IF x \in set THEN [exc |-> "none", set |-> set]
    ELSE [exc |-> "KeyError", set |-> set]

\* set.remove(x)
set_remove(set, x) ==
    IF x \in set THEN [exc |-> "none", set |-> set \ {x}]
    ELSE [exc |-> "KeyError", set |-> set]

\* The three tests of the loop body on a line.
IsPut(text) == IsSubstr(<<"ofctrl_put not needed">>, text)
IsAdd(text) ==
    IsSubstr(<<"ofctrl_add_flow">>, text) /\ IsSubstr(<<"table_id=", "20">>, text)
IsRemove(text) ==
    /\ IsSubstr(<<"removing installed", " ", "flow">>, text)
    /\ IsSubstr(<<"table_id=", "20">>, text)

\* `last` before the first iteration.
NoIteration ==
    [kind |-> "none", text |-> << >>, before |-> {}, diffed |-> FALSE,
     dump |-> {}, report |-> {}]

LoopInit ==
    /\ ovn_log = << >> /\ w_off = 0
    /\ r_line = 1 /\ r_off = 0
    /\ expected_flows = {}
    /\ loop_pc = "running" /\ loop_exc = "none"
    /\ last = NoIteration
    /\ classified = << >>

\* The log writer starts a line and writes its first k atoms.
WriteLine(l, k) ==
    /\ Len(ovn_log) < MaxLines
    /\ ovn_log # << >> => w_off = Len(LogText(ovn_log[Len(ovn_log)]))
    /\ k \in WriteEnds(l, 0)
    /\ ovn_log' = Append(ovn_log, l)
    /\ w_off' = k
    /\ UNCHANGED <<r_line, r_off, expected_flows, loop_pc, loop_exc, last,
                   classified>>
    /\ UNCHANGED <<del_vars, dup_vars, canon_vars, list_vars, main_vars>>

\* The offsets at which the next write of the started line may end.
PendingEnds ==
    IF ovn_log = << >> THEN {}
    ELSE WriteEnds(ovn_log[Len(ovn_log)], w_off)

\* The log writer writes more of the line it has started.
WriteMore(k) ==
    /\ k \in PendingEnds
    /\ w_off' = k
    /\ UNCHANGED <<ovn_log, r_line, r_off, expected_flows, loop_pc, loop_exc,
                   last, classified>>
    /\ UNCHANGED <<del_vars, dup_vars, canon_vars, list_vars, main_vars>>

\* The body of the loop for a complete line.
\*   snap, c: the rules and counters the dataplane would dump
\*   ok:      the dump command exits with status zero
LoopBody(text, snap, c, ok) ==
    \E x \in {extract_flow_from_logline(text)} :
    LET diff == IsPut(text) /\ expected_flows # {}
        report == IF diff /\ ok
                  THEN check_ofctl(expected_flows, DumpLines(snap, c))
                  ELSE {}
        added == IF IsAdd(text) /\ x # IndexError
                 THEN expected_flows \cup {x}
                 ELSE expected_flows
        rm == IF IsRemove(text) /\ x # IndexError
              THEN set_remove(added, x)
              ELSE [exc |-> "none", set |-> added]
        exc == IF diff /\ ~ok THEN "CalledProcessError"
               ELSE IF (IsAdd(text) \/ IsRemove(text)) /\ x = IndexError
               THEN "IndexError"
               ELSE rm.exc
    IN /\ classified' = Append(classified, [line |-> r_line, off |-> r_off])
       /\ last' = [kind |-> "line", text |-> text, before |-> expected_flows,
                   diffed |-> diff /\ ok,
                   dump |-> IF diff /\ ok THEN snap ELSE {},
                   report |-> report]
       /\ expected_flows' =
             IF diff /\ ~ok THEN expected_flows
             ELSE IF IsAdd(text) /\ x = IndexError THEN expected_flows
             ELSE rm.set
       /\ loop_exc' = exc
       /\ loop_pc' = IF exc = "none" THEN "running" ELSE "raised"

\* One iteration of `while True`.
LoopIter ==
    /\ loop_pc = "running"
    /\ \E rd \in {readline(ovn_log, w_off, r_line, r_off)} :
       LET text == rd.text
       IN /\ r_line' = rd.line
          /\ r_off' = rd.off
          /\ IF ~EndsWithNewline(text)
             THEN \* sleep, print, continue
                  UNCHANGED <<expected_flows, loop_pc, loop_exc, last,
                              classified>>
             ELSE IF IsPut(text) /\ expected_flows # {}
             THEN \E snap \in SUBSET Table20, c \in Counters, ok \in BOOLEAN :
                     LoopBody(text, snap, c, ok)
             ELSE LoopBody(text, {}, "0", TRUE)
    /\ UNCHANGED <<ovn_log, w_off>>
    /\ UNCHANGED <<del_vars, dup_vars, canon_vars, list_vars, main_vars>>

LoopNext ==
    \/ \E l \in LogLines : \E k \in WriteEnds(l, 0) : WriteLine(l, k)
    \/ \E k \in PendingEnds : WriteMore(k)
    \/ LoopIter

\* A call of get_list_logical_switch_port with a listing, then a lookup.
ListInit ==
    /\ lsp_stdout \in Listings
    /\ lsp_i = 1
    /\ buffer_ = << >>
    /\ lsp_ports = << >>
    /\ lsp_pc = "loop"
    /\ lsp_lookup = None

\* One iteration of `for line in p.stdout.split('\n')`.
ListLine ==
    /\ lsp_pc = "loop"
    /\ lsp_i <= Len(Split(lsp_stdout, <<"\n">>))
    /\ LET st == lister_line([ports |-> lsp_ports, buffer_ |-> buffer_],
                             Split(lsp_stdout, <<"\n">>)[lsp_i])
       IN /\ lsp_ports' = st.ports
          /\ buffer_' = st.buffer_
    /\ lsp_i' = lsp_i + 1
    /\ UNCHANGED <<lsp_stdout, lsp_pc, lsp_lookup>>
    /\ UNCHANGED <<del_vars, dup_vars, canon_vars, loop_vars, main_vars>>

\* return ports
ListReturn ==
    /\ lsp_pc = "loop"
    /\ lsp_i > Len(Split(lsp_stdout, <<"\n">>))
    /\ lsp_pc' = "returned"
    /\ UNCHANGED <<lsp_stdout, lsp_i, buffer_, lsp_ports, lsp_lookup>>
    /\ UNCHANGED <<del_vars, dup_vars, canon_vars, loop_vars, main_vars>>

\* get_port_uuid over the returned list, for a rule with the given addresses.
ListLookup(ip, mac) ==
    /\ lsp_pc = "returned"
    /\ lsp_lookup' = get_port_uuid(Flow(ip, mac), lsp_ports).outcome
    /\ lsp_pc' = "looked up"
    /\ UNCHANGED <<lsp_stdout, lsp_i, buffer_, lsp_ports>>
    /\ UNCHANGED <<del_vars, dup_vars, canon_vars, loop_vars, main_vars>>

ListNext ==
    \/ ListLine
    \/ ListReturn
    \/ \E ip \in IPs, mac \in MACs : ListLookup(ip, mac)

(***************************************************************************)
(* missingflowhunter.py : the __main__ block and main                      *)
(***************************************************************************)

\* The verbosity levels a destination may have.
Levels == { "off", "info", "dbg" }

\* VLOG_DESTINATION
VLOG_DESTINATION == [console |-> 0, syslog |-> 1, file |-> 2]

\* line.split() of the line vlog/list prints for module ofctrl: the module,
\* then its console, syslog and file levels.
VlogListTokens(v) == <<"ofctrl", v.console, v.syslog, v.file>>

\* vlog_get('ofctrl'): tokens[VLOG_DESTINATION['file']], counted from zero,
\* of the module's line; None when no line starts with the module.
vlog_get(listed, v) ==
    IF listed THEN VlogListTokens(v)[VLOG_DESTINATION.file + 1] ELSE None

\* The exceptions that leave loop.
LoopExceptions == { "KeyError", "IndexError", "CalledProcessError" }

\* A faulty variant of on_exception: no finally clause runs.
on_exception_exit(pc) == "exited"

\* Where an exception raised at pc goes: out of loop through main's
\* finally (the files are closed), elsewhere in the try straight to the
\* finally of the __main__ block.
on_exception(pc) == IF pc = "loop" THEN "close" ELSE "restore"

MainInit ==
    /\ vlog \in [console : Levels, syslog : Levels, file : Levels]
    /\ vlog_listed \in BOOLEAN
    /\ current_vlog_level = None
    /\ vlog_calls = << >>
    /\ files_open = {}
    /\ main_pc = "start"
    /\ main_exc = "none"

\* current_vlog_level = vlog_get('ofctrl'); check_output raises when the
\* command fails.
VlogGet(ok) ==
    /\ main_pc = "start"
    /\ IF ok
       THEN /\ current_vlog_level' = vlog_get(vlog_listed, vlog)
            /\ main_pc' = "vlog_set"
            /\ UNCHANGED main_exc
       ELSE /\ main_pc' = "failed"
            /\ main_exc' = "CalledProcessError"
            /\ UNCHANGED current_vlog_level
    /\ UNCHANGED <<vlog, vlog_listed, vlog_calls, files_open>>
    /\ UNCHANGED <<del_vars, dup_vars, canon_vars, loop_vars, list_vars>>

\* vlog_set('ofctrl', 'dbg'), first statement of the try.
VlogSetDbg(ok) ==
    /\ main_pc = "vlog_set"
    /\ vlog_calls' = Append(vlog_calls, "dbg")
    /\ IF ok
       THEN /\ vlog' = [vlog EXCEPT !.file = "dbg"]
            /\ main_pc' = "open_ovn"
            /\ UNCHANGED main_exc
       ELSE /\ main_exc' = "CalledProcessError"
            /\ main_pc' = on_exception(main_pc)
            /\ UNCHANGED vlog
    /\ UNCHANGED <<vlog_listed, current_vlog_level, files_open>>
    /\ UNCHANGED <<del_vars, dup_vars, canon_vars, loop_vars, list_vars>>

\* ovn_logf = open(...)
OpenOvn(ok) ==
    /\ main_pc = "open_ovn"
    /\ IF ok
       THEN /\ files_open' = {"ovn"}
            /\ main_pc' = "open_ovs"
            /\ UNCHANGED main_exc
       ELSE /\ main_exc' = "OSError"
            /\ main_pc' = on_exception(main_pc)
            /\ UNCHANGED files_open
    /\ UNCHANGED <<vlog, vlog_listed, current_vlog_level, vlog_calls>>
    /\ UNCHANGED <<del_vars, dup_vars, canon_vars, loop_vars, list_vars>>

\* ovs_logf = open(...): on failure ovn_logf stays open, main's try has
\* not been entered.
OpenOvs(ok) ==
    /\ main_pc = "open_ovs"
    /\ IF ok
       THEN /\ files_open' = {"ovn", "ovs"}
            /\ main_pc' = "loop"
            /\ UNCHANGED main_exc
       ELSE /\ main_exc' = "OSError"
            /\ main_pc' = on_exception(main_pc)
            /\ UNCHANGED files_open
    /\ UNCHANGED <<vlog, vlog_listed, current_vlog_level, vlog_calls>>
    /\ UNCHANGED <<del_vars, dup_vars, canon_vars, loop_vars, list_vars>>

\* loop(ovn_logf, ovs_logf) is left by an exception.
LoopRaises(e) ==
    /\ main_pc = "loop"
    /\ main_exc' = e
    /\ main_pc' = on_exception(main_pc)
    /\ UNCHANGED <<vlog, vlog_listed, current_vlog_level, vlog_calls,
                   files_open>>
    /\ UNCHANGED <<del_vars, dup_vars, canon_vars, loop_vars, list_vars>>

\* The process is interrupted inside the try: KeyboardInterrupt is raised
\* where the program stands.
Interrupt ==
    /\ main_pc \in {"vlog_set", "open_ovn", "open_ovs", "loop"}
    /\ main_exc' = "KeyboardInterrupt"
    /\ main_pc' = on_exception(main_pc)
    /\ UNCHANGED <<vlog, vlog_listed, current_vlog_level, vlog_calls,
                   files_open>>
    /\ UNCHANGED <<del_vars, dup_vars, canon_vars, loop_vars, list_vars>>

\* The finally clause of main: both files are closed.
CloseFiles ==
    /\ main_pc = "close"
    /\ files_open' = {}
    /\ main_pc' = "restore"
    /\ UNCHANGED <<vlog, vlog_listed, current_vlog_level, vlog_calls,
                   main_exc>>
    /\ UNCHANGED <<del_vars, dup_vars, canon_vars, loop_vars, list_vars>>

\* The finally clause of the __main__ block:
\* vlog_set('ofctrl', current_vlog_level).
VlogRestore(ok) ==
    /\ main_pc = "restore"
    /\ vlog_calls' = Append(vlog_calls, current_vlog_level)
    /\ IF ok /\ current_vlog_level \in Levels
       THEN vlog' = [vlog EXCEPT !.file = current_vlog_level]
       ELSE UNCHANGED vlog
    /\ main_exc' = IF ok THEN main_exc ELSE "CalledProcessError"
    /\ main_pc' = "exited"
    /\ UNCHANGED <<vlog_listed, current_vlog_level, files_open>>
    /\ UNCHANGED <<del_vars, dup_vars, canon_vars, loop_vars, list_vars>>

MainNext ==
    \/ \E ok \in BOOLEAN : VlogGet(ok)
    \/ \E ok \in BOOLEAN : VlogSetDbg(ok)
    \/ \E ok \in BOOLEAN : OpenOvn(ok)
    \/ \E ok \in BOOLEAN : OpenOvs(ok)
    \/ \E e \in LoopExceptions : LoopRaises(e)
    \/ Interrupt
    \/ CloseFiles
    \/ \E ok \in BOOLEAN : VlogRestore(ok)

CanonNext ==
    \/ CallLogline
    \/ CallOfctl
    \/ CallOvsLogline
    \/ CallAgain

(***************************************************************************)
(* Specifications                                                          *)
(***************************************************************************)

\* The parts of the program that a specification does not run.
DelIdle ==
    /\ duplicates = << >> /\ dry_run = FALSE /\ nb_db = << >>
    /\ lsp_cache = Miss /\ nbctl_calls = 0 /\ gi = 1 /\ fi = 1
    /\ failures = << >> /\ del_calls = << >> /\ progress = << >>
    /\ lookups = << >> /\ del_pc = "idle" /\ del_exc = "none"
    /\ env_steps = 0

DupIdle ==
    /\ listing = << >> /\ li = 1 /\ flows = << >> /\ dups = None
    /\ dup_pc = "idle"

CanonIdle ==
    /\ canon_rule = None /\ canon_ctr = None
    /\ out_logline = None /\ out_ofctl = None /\ out_ovs = None
    /\ out_again = NotAgain

LoopIdle ==
    /\ ovn_log = << >> /\ w_off = 0 /\ r_line = 1 /\ r_off = 0
    /\ expected_flows = {} /\ loop_pc = "idle" /\ loop_exc = "none"
    /\ classified = << >>
    /\ last = NoIteration

ListIdle ==
    /\ lsp_stdout = << >> /\ lsp_i = 1 /\ buffer_ = << >>
    /\ lsp_ports = << >>
    /\ lsp_pc = "idle" /\ lsp_lookup = None

MainIdle ==
    /\ vlog = << >> /\ vlog_listed = FALSE /\ current_vlog_level = None
    /\ vlog_calls = << >> /\ files_open = {} /\ main_pc = "idle"
    /\ main_exc = "none"

\* A run of delete_duplicates.
SpecDelInit ==
    DelInit /\ DupIdle /\ CanonIdle /\ LoopIdle /\ ListIdle /\ MainIdle

SpecDel == SpecDelInit /\ [][DelNext]_vars

\* A call of find_lflow_dups.
SpecDupsInit ==
    DupInit /\ DelIdle /\ CanonIdle /\ LoopIdle /\ ListIdle /\ MainIdle

SpecDups == SpecDupsInit /\ [][DupNext]_vars

\* The reconciliation loop beside the log writer.
SpecLoopInit ==
    LoopInit /\ DelIdle /\ DupIdle /\ CanonIdle /\ ListIdle /\ MainIdle

SpecLoop == SpecLoopInit /\ [][LoopNext]_vars

\* The canonicalizers applied to the three forms of one rule.
SpecCanonInit ==
    CanonInit /\ DelIdle /\ DupIdle /\ LoopIdle /\ ListIdle /\ MainIdle

SpecCanon == SpecCanonInit /\ [][CanonNext]_vars

\* A call of the endpoint lister and a lookup over its result.
SpecListInit ==
    ListInit /\ DelIdle /\ DupIdle /\ CanonIdle /\ LoopIdle /\ MainIdle

SpecList == SpecListInit /\ [][ListNext]_vars

\* A run of missingflowhunter.py as a script.  The interpreter runs the
\* finally clauses it has entered: closing the files and issuing the
\* vlog/set call are steps that are taken once they are due.
SpecMainInit ==
    MainInit /\ DelIdle /\ DupIdle /\ CanonIdle /\ LoopIdle /\ ListIdle

SpecMain ==
    /\ SpecMainInit
    /\ [][MainNext]_vars
    /\ WF_vars(CloseFiles)
    /\ WF_vars(\E ok \in BOOLEAN : VlogRestore(ok))

(***************************************************************************)
(* Claims about the Port Index and the Remediation Engine                  *)
(***************************************************************************)

\* The endpoints of the snapshot that textually contain both addresses.
Matching(ports, flow) ==
    { i \in DOMAIN ports : /\ IsSubstr(flow.mac, ports[i].addresses)
                           /\ IsSubstr(flow.ip, ports[i].addresses) }

\* C1: no external delete call is ever issued for an endpoint that the
\* snapshot reports as up, and on a dry run no delete call is issued at all.
C1_NoDeleteOfUpNorOnDryRun ==
    \A k \in DOMAIN del_calls :
        /\ ~dry_run
        /\ \A i \in DOMAIN lsp_cache :
              lsp_cache[i]._uuid = del_calls[k].target => ~lsp_cache[i].up

\* C1 witness: a batch that resolved an endpoint that is up ran to its end,
\* and another rule of it resolved nothing.
C1_Witness ==
    /\ del_pc = "returned"
    /\ \E k \in DOMAIN lookups :
          lookups[k].outcome = "port" /\ lookups[k].port.up
    /\ del_calls = << >>

\* C3: delete_duplicates is never left by an exception raised for one item
\* (an ambiguous endpoint, an endpoint that is down): it processes every
\* member rule and returns.
C3_BatchNeverAborts ==
    ~(del_pc = "raised" /\ del_exc \in {"ManyPortsFound", "NameError"})

\* C6: get_port_uuid returns the endpoint when exactly one endpoint of the
\* snapshot contains both addresses, fails with PortNotFound when none
\* does and with ManyPortsFound when several do.
C6_LookupOutcome ==
    \A k \in DOMAIN lookups :
        LET l == lookups[k]
            m == Matching(l.ports, l.flow)
        IN /\ Cardinality(m) = 1 =>
                /\ l.outcome = "port"
                /\ \A i \in m : l.port = l.ports[i]
           /\ Cardinality(m) = 0 => l.outcome = "PortNotFound"
           /\ Cardinality(m) > 1 => l.outcome = "ManyPortsFound"
           /\ l.outcome \in {"port", "PortNotFound", "ManyPortsFound"}

\* C7: without dry run, every member rule whose resolved endpoint is down
\* gets exactly one delete call, and its target is that endpoint.
C7_DownEndpointDeletedOnce ==
    ~dry_run =>
        \A k \in DOMAIN lookups :
            (lookups[k].outcome = "port" /\ ~lookups[k].port.up) =>
                Cardinality({ c \in DOMAIN del_calls :
                                /\ del_calls[c].lookup = k
                                /\ del_calls[c].target = lookups[k].port._uuid })
                  = 1

\* C8: the endpoint lister is queried at most once in a run and every
\* lookup sees the same snapshot.
C8_ListerQueriedOnce ==
    /\ nbctl_calls <= 1
    /\ \A j, k \in DOMAIN lookups : lookups[j].ports = lookups[k].ports

\* C8 witness: two lookups were made and the control plane has changed
\* since the snapshot was taken.
C8_Witness ==
    /\ Len(lookups) >= 2
    /\ lsp_cache # Miss
    /\ nb_db # lsp_cache

(***************************************************************************)
(* Claims about the canonicalizers                                         *)
(***************************************************************************)

\* The canonical string of a rule: cookie with 0x, table, priority, match
\* fields, action, comma-joined in that order.
Canonical(r) ==
    <<"cookie=", "0x", r.cookie, ",", "table=", r.table, ",",
      "priority=", r.priority, ",">>
    \o FieldText(r.match) \o <<",">> \o ActionText(r.actions)

\* C10: each of the three canonicalizers, given its form of a rule, returns
\* the rule's canonical string, so the three results are the same.
C10_CrossFormatEquivalence ==
    /\ out_logline # None => out_logline = Canonical(canon_rule)
    /\ out_ofctl # None => out_ofctl = Canonical(canon_rule)
    /\ out_ovs # None => out_ovs = Canonical(canon_rule)

\* C10 witness: the three canonicalizers have run on a rule whose action
\* text contains a comma and whose counters are not zero.
C10_Witness ==
    /\ out_logline # None /\ out_ofctl # None /\ out_ovs # None
    /\ out_logline = out_ofctl /\ out_ofctl = out_ovs
    /\ Len(canon_rule.actions) = 2
    /\ canon_ctr # "0"

(***************************************************************************)
(* Claims about the reconciliation loop                                    *)
(***************************************************************************)

\* The log line that the last classified read came from.
LastLine == ovn_log[classified[Len(classified)].line]

\* C2: a read that returns an empty or unterminated line consumes nothing:
\* the read position never rests inside a line, every read that is
\* classified is a whole line, and every line the reader has passed was
\* classified exactly once.
C2_PartialReadConsumesNothing ==
    /\ r_off = 0
    /\ \A k \in DOMAIN classified : classified[k].off = 0
    /\ \A i \in 1..(r_line - 1) :
          Cardinality({ k \in DOMAIN classified : classified[k].line = i }) = 1

\* C4: when the loop classifies a line as the removal of a table-20 rule
\* whose canonical form is not in the expected set, the loop is left by
\* KeyError and the expected set is as it was.
C4_RemoveOfAbsentRaises ==
    (/\ last.kind = "line"
     /\ LastLine.kind = "rm"
     /\ IsRemove(last.text)
     /\ Canonical(LastLine.rule) \notin last.before)
    => /\ loop_pc = "raised"
       /\ loop_exc = "KeyError"
       /\ expected_flows = last.before

\* C4 witness: after an install was read, the removal of another rule, one
\* that was never installed since the loop started, left the loop by
\* KeyError.
C4_Witness ==
    /\ loop_exc = "KeyError"
    /\ last.before # {}
    /\ Len(classified) >= 2
    /\ LastLine.kind = "rm"

\* C5: on the flush notice, with a non-empty expected set, the report is
\* the expected rules that the dump does not hold; with an empty expected
\* set no dump is made.
C5_ReportIsDifference ==
    (last.kind = "line" /\ IsPut(last.text)) =>
        IF last.before = {}
        THEN ~last.diffed
        ELSE \/ loop_exc = "CalledProcessError" /\ ~last.diffed
             \/ /\ last.diffed
                /\ last.report =
                     { Canonical(r) : r \in
                         { q \in Table20 : /\ Canonical(q) \in last.before
                                           /\ q \notin last.dump } }

\* C5 witness: two rules were expected, the dump held one of them, and the
\* report names the other.
C5_Witness ==
    /\ last.kind = "line" /\ IsPut(last.text)
    /\ Cardinality(last.before) = 2
    /\ last.diffed
    /\ Cardinality(last.dump) = 1
    /\ Cardinality(last.report) = 1

(***************************************************************************)
(* Claims about find_lflow_dups                                            *)
(***************************************************************************)

\* A line passes the table/stage filter.
Qualifies(l) == l.stage = ArpResolve /\ l.outport = "lrp-"

\* The RuleKey of a line: table, priority, match.
RuleKey(l) == <<"12", l.priority, l.outport, l.ip>>

\* The text of the first three fields of a line.
KeyText(l) ==
    <<"table=", "12", "(", l.stage, ")", ",", " ", "priority=", l.priority,
      "  ", ",", " ", "match=(", "outport == \"", l.outport,
      "f85096df\" && reg0 == ", l.ip, ")">>

\* The qualifying lines with the RuleKey of l, in source order.
SameKey(l) ==
    SelectSeq(listing, LAMBDA m : Qualifies(m) /\ RuleKey(m) = RuleKey(l))

\* C9: a RuleKey with N >= 2 qualifying lines gets exactly one group, which
\* holds those N lines in source order; a RuleKey with one qualifying line
\* gets none; no group is made of anything else.
C9_GroupsOfTwoOrMore ==
    dup_pc = "returned" =>
        /\ \A i \in DOMAIN listing :
              Qualifies(listing[i]) =>
                 LET same == SameKey(listing[i])
                     mine == { j \in DOMAIN dups :
                                 dups[j].key = KeyText(listing[i]) }
                 IN IF Len(same) >= 2
                    THEN /\ Cardinality(mine) = 1
                         /\ \A j \in mine :
                               dups[j].lines =
                                  [k \in DOMAIN same |-> strip(LflowText(same[k]))]
                    ELSE mine = {}
        /\ \A j \in DOMAIN dups :
              \E i \in DOMAIN listing :
                 Qualifies(listing[i]) /\ dups[j].key = KeyText(listing[i])

\* C9 witness: a listing with two lines of one RuleKey and distinct actions,
\* and a third qualifying line of another RuleKey, gave one group of two.
C9_Witness ==
    /\ dup_pc = "returned"
    /\ Len(flows) = 2
    /\ Len(dups) = 1
    /\ Len(dups[1].lines) = 2
    /\ dups[1].lines[1] # dups[1].lines[2]

(***************************************************************************)
(* Claims about the expected set                                           *)
(***************************************************************************)

\* The step classifies the removal line of the rule whose install line was
\* the line classified just before, both read whole.
AddThenRemove ==
    /\ last.kind = "line"
    /\ loop_pc = "running"
    /\ Len(classified') = Len(classified) + 1
    /\ classified[Len(classified)].off = 0
    /\ classified'[Len(classified')].off = 0
    /\ LET a == ovn_log[classified[Len(classified)].line]
           r == ovn_log[classified'[Len(classified')].line]
       IN /\ a.kind = "add" /\ r.kind = "rm"
          /\ a.rule \in Table20
          /\ r.rule = a.rule

\* The rule of the install line classified last.
LastRule == Canonical(LastLine.rule)

\* C11 (as stated): an install of X followed at once by the removal of X
\* leaves the expected set as it was before the install, whether or not X
\* was in it.
C11_AddRemoveRestores ==
    [][AddThenRemove => expected_flows' = last.before]_vars

\* C11 (amended): an install of X followed at once by the removal of X
\* leaves the expected set without X: as it was before the install when X
\* was not in it, and less X when it was.
C11_AddRemoveLeavesSetLessX ==
    [][AddThenRemove =>
          /\ loop_pc' = "running"
          /\ expected_flows' = last.before \ {LastRule}
          /\ (LastRule \notin last.before => expected_flows' = last.before)]_vars

\* C11 witness: with another rule expected, a rule that was not expected
\* was installed and removed at once, and the other rule is still expected.
C11_Witness ==
    /\ loop_pc = "running"
    /\ Len(classified) = 3
    /\ \A k \in DOMAIN classified : classified[k].off = 0
    /\ ovn_log[classified[2].line].kind = "add"
    /\ ovn_log[classified[3].line].kind = "rm"
    /\ ovn_log[classified[3].line].rule = ovn_log[classified[2].line].rule
    /\ Cardinality(expected_flows) = 1
    /\ Canonical(ovn_log[classified[3].line].rule) \notin expected_flows

\* C12: the loop never exits on its own: after a flush notice read with a
\* non-empty expected set, whatever the dump command returned, the loop
\* goes on to the next read.
C12_LoopNeverExits ==
    (last.kind = "line" /\ IsPut(last.text) /\ last.before # {})
    => loop_pc = "running" /\ loop_exc = "none"

(***************************************************************************)
(* Claims about the endpoint lister                                        *)
(***************************************************************************)

\* The lines that open a block of the listing: a line that is not blank,
\* first of the listing or after a blank line.
BlockStarts ==
    LET lines == Split(lsp_stdout, <<"\n">>)
    IN { i \in DOMAIN lines :
           lines[i] # << >> /\ (i = 1 \/ lines[i - 1] = << >>) }

\* C19: the lister returns one record per block of the listing, in listing
\* order, each with identifier, addresses and state, whatever the blank
\* lines between and after the blocks; a lookup over the list ends in a
\* record, PortNotFound or ManyPortsFound.
C19_OneRecordPerBlock ==
    lsp_pc \in {"returned", "looked up"} =>
        /\ Len(lsp_ports) = Cardinality(BlockStarts)
        /\ \A i \in DOMAIN lsp_ports :
              lsp_ports[i].keys = PortKeys /\ lsp_ports[i]._uuid = i
        /\ lsp_lookup \in {None, "port", "PortNotFound", "ManyPortsFound"}

(***************************************************************************)
(* Claims about the __main__ block                                         *)
(***************************************************************************)

\* The process has ended and the last vlog/set call issued carried the
\* level read at start.
Restored ==
    /\ main_pc = "exited"
    /\ vlog_calls # << >>
    /\ vlog_calls[Len(vlog_calls)] = current_vlog_level

\* C13: once the level has been read and the try entered, every way out
\* (vlog/set failing, a file that cannot be opened, an exception out of
\* loop, an interruption) leads to a vlog/set call with the level read, and
\* no vlog/set call follows it.
C13_RestoreOnExit ==
    /\ [](main_pc = "exited" => Restored)
    /\ ((main_exc # "none" /\ main_pc # "failed") ~> Restored)

\* C13 witness: loop was left by an exception after the level was raised,
\* and the run ended with the level read at start set again.
C13_Witness ==
    /\ Restored
    /\ main_exc = "KeyError"
    /\ vlog_calls = <<"dbg", current_vlog_level>>
    /\ current_vlog_level \in Levels \ {"dbg"}
    /\ vlog.file = current_vlog_level

(***************************************************************************)
(* Further claims about find_lflow_dups                                    *)
(***************************************************************************)

\* C14: every group returned holds two distinct rule lines or more; a
\* RuleKey whose qualifying lines are all the same text gets no group.
C14_GroupsHaveDistinctLines ==
    dup_pc = "returned" =>
        \A j \in DOMAIN dups :
            Cardinality({ dups[j].lines[k] : k \in DOMAIN dups[j].lines }) >= 2

(***************************************************************************)
(* Further claims about the canonicalizers                                 *)
(***************************************************************************)

\* C15: the live-dump canonicalizer drops the duration, n_packets, n_bytes
\* and idle_age fields and keeps the other tokens in order, and every
\* canonicalizer returns an already canonical string unchanged.
C15_StripsVolatileAndIdempotent ==
    /\ out_ofctl # None => out_ofctl = Canonical(canon_rule)
    /\ out_again # NotAgain =>
          /\ out_again.ofctl # IndexError /\ out_again.ofctl = out_ofctl
          /\ out_again.logline # IndexError /\ out_again.logline = out_logline
          /\ out_again.ovs # IndexError /\ out_again.ovs = out_ovs

(***************************************************************************)
(* Further claims about the Remediation Engine                             *)
(***************************************************************************)

\* C16: the command's exit status is non-zero exactly when a delete call
\* issued during the run returned a non-zero status (runs that a failed
\* assertion on the lister or on a rule's text ended are left aside).
C16_ExitStatusIffDeleteFailed ==
    (del_pc \in {"returned", "raised"} /\ del_exc # "AssertionError") =>
        (exit_status # 0 <=> \E k \in DOMAIN del_calls : del_calls[k].rc # 0)

(***************************************************************************)
(* Further claims about the reconciliation loop                            *)
(***************************************************************************)

\* The expected set after the install and removal events of the lines, in
\* log order, starting from the set given.
RECURSIVE FoldEvents(_, _)
FoldEvents(lines, set) ==
    IF lines = << >> THEN set
    ELSE LET l == Head(lines)
         IN IF l.kind = "add" /\ l.rule \in Table20
            THEN FoldEvents(Tail(lines), set \cup {Canonical(l.rule)})
            ELSE IF l.kind = "rm" /\ l.rule \in Table20
            THEN FoldEvents(Tail(lines), set \ {Canonical(l.rule)})
            ELSE FoldEvents(Tail(lines), set)

\* C17: while the loop runs, the expected set is the in-order fold, from
\* the empty set, of the install and removal events of table 20 among the
\* lines the reader has consumed; nothing else changes it.
C17_ExpectedIsFoldOfEvents ==
    loop_pc = "running" =>
        expected_flows = FoldEvents(SubSeq(ovn_log, 1, r_line - 1), {})

\* C18: an install or removal line of table 20 without the "flow:" marker
\* ends the processing of that line only: the expected set is unchanged
\* and the loop goes on.
C18_MalformedLineSkipped ==
    (/\ last.kind = "line"
     /\ IsAdd(last.text) \/ IsRemove(last.text)
     /\ ~IsSubstr(<<"flow", ":">>, last.text))
    => /\ expected_flows = last.before
       /\ loop_pc = "running"

(***************************************************************************)
(* Claims about repeated deletion                                          *)
(***************************************************************************)

\* The member rules of the duplicates dict that the snapshot resolves to
\* its endpoint i.
ResolveTo(i) ==
    { pos \in { <<g, f>> : g \in DOMAIN duplicates, f \in 1..MaxFlows } :
        /\ pos[2] <= Len(duplicates[pos[1]])
        /\ LET flow == duplicates[pos[1]][pos[2]]
           IN /\ RE_IP_ADDR(flow)
              /\ Matching(lsp_cache, flow) = {i} }

====
